---- MODULE Spec2Model ----
\* Stock ledger and work-order settlement of the inventory application:
\* src/lib/orders-utils.ts (createProductOrder, updateProductOrderStatus,
\* deleteProductOrder), the store helpers of lib/database (src/unnamed/part_007:
\* updateRawMaterial, updateInventoryItem, getRawMaterials, getInventoryItems) and
\* the store schema (src/unnamed/part_005 without, src/database-setup.sql with
\* CHECK constraints and status triggers).
\*
\* Every async function is cut at its awaits: one action per store round trip,
\* and one per synchronous continuation that touches the in-memory order lists.
\* Calls in flight at the same time interleave at these points.
EXTENDS Integers, Sequences, FiniteSets, TLC

\* ------------------------------------------------------------------ bounds

\* Work orders that may be created (caps nextOrderId).
MaxOrders == 2

\* Calls made in one run.
MaxCalls == 4

\* Rows a table may hold (caps addRawMaterial and addInventoryItem).
MaxRows == 3

\* Async calls that may be in flight at the same time.
Procs == {"t1", "t2"}

\* Identifiers of rows of raw_materials and inventory_items (BIGSERIAL ids).
MaterialIds == {1, 2}
ProductIds == {1, 2}

\* Quantities the initial store rows are drawn from, and the quantities requests
\* ask for (the form requires every quantity to be > 0).
InitQuantities == {<<10, 2>>, <<12, 5>>}
InitStocks == {3}
ReqQuantities == {5}
OrderQuantities == {7}

\* The values direct calls of addRawMaterial, addInventoryItem, updateRawMaterial
\* and updateInventoryItem carry.
AddQuantities == {15}
UpdateQuantities == {0, 15}
UpdateReorderLevels == {3}

\* ------------------------------------------------------------ the store schema

\* reorder_level INTEGER DEFAULT 10; addRawMaterial writes 10 as well.
DefaultReorderLevel == 10

\* The hardcoded cutoff of addInventoryItem / updateInventoryItem.
ProductLowStockCutoff == 10

\* The cutoff of the update_inventory_status trigger.
TriggerLowStockCutoff == 20

\* The two schemas of the repository: "basic" has neither CHECK constraints on
\* quantities nor status triggers, "full" has both.
Schemas == {"basic", "full"}

VARIABLES
    schema,               \* which schema the store was set up with
    rawMaterials,         \* raw_materials: id -> [quantity, reorder_level, status]
    inventoryItems,       \* inventory_items: id -> [stock, status]
    productOrders,        \* the active list (module-level array)
    productOrderHistory,  \* the history list (module-level array)
    nextOrderId,          \* module-level counter
    calls,                \* calls made so far
    call,                 \* per async call: operation, position, locals
    returned,             \* what the step just taken returned to its caller, if it did
    pre,                  \* history variable: the state when the call under way
                          \* started (sequential runs), the initial state (others)
    purchaseOrders,       \* purchase_orders: rows in the order of their created_at
    purchaseOrderSeq,     \* the sequence behind purchase_orders.id SERIAL
    calc                  \* a pure computation: the function, its arguments, its value

vars == <<schema, rawMaterials, inventoryItems, productOrders,
          productOrderHistory, nextOrderId, calls, call, returned, pre,
          purchaseOrders, purchaseOrderSeq, calc>>

\* ------------------------------------------------------------ status rules

\* Mutant of RawMaterialStatus: the reorder level is compared first.
RawMaterialStatusLevelFirst(quantity, reorder_level) ==
    IF quantity <= reorder_level THEN "low-stock"
    ELSE IF quantity = 0 THEN "out-of-stock"
    ELSE "in-stock"

\* updateRawMaterial, addRawMaterial: status from quantity and reorder level.
RawMaterialStatus(quantity, reorder_level) ==
    IF quantity = 0 THEN "out-of-stock"
    ELSE IF quantity <= reorder_level THEN "low-stock"
    ELSE "in-stock"

\* Mutant of InventoryStatus: low-stock only at the cutoff itself.
InventoryStatusAtCutoff(stock) ==
    IF stock = 0 THEN "out-of-stock"
    ELSE IF stock = ProductLowStockCutoff THEN "low-stock"
    ELSE "in-stock"

\* addInventoryItem, updateInventoryItem: status from stock, cutoff 10.
InventoryStatus(stock) ==
    IF stock = 0 THEN "out-of-stock"
    ELSE IF stock <= ProductLowStockCutoff THEN "low-stock"
    ELSE "in-stock"

\* Trigger update_inventory_status: status from NEW.stock, cutoff 20.
TriggerInventoryStatus(stock) ==
    IF stock = 0 THEN "out-of-stock"
    ELSE IF stock <= TriggerLowStockCutoff THEN "low-stock"
    ELSE "in-stock"

\* Trigger update_raw_materials_status: status from NEW.quantity and
\* COALESCE(NEW.reorder_level, 10); reorder_level is never NULL in this model.
TriggerRawMaterialStatus(quantity, reorder_level) ==
    IF quantity = 0 THEN "out-of-stock"
    ELSE IF quantity <= reorder_level THEN "low-stock"
    ELSE "in-stock"

\* ------------------------------------------------------------ store writes

\* { ...row, ...updates }: the fields of updates replace those of row.
Merge(row, updates) == updates @@ row

\* UPDATE raw_materials SET <updates> WHERE id = ...: the row after the BEFORE
\* triggers ran. The status trigger fires on UPDATE OF quantity, reorder_level.
RawMaterialRowAfterUpdate(row, updates) ==
    LET new == Merge(row, updates)
    IN  IF schema = "full" /\ ({"quantity", "reorder_level"} \cap DOMAIN updates) # {}
        THEN [new EXCEPT !.status =
                  TriggerRawMaterialStatus(new.quantity, new.reorder_level)]
        ELSE new

\* chk_raw_materials_quantity_positive, chk_raw_materials_reorder_positive.
RawMaterialRowAccepted(row) ==
    schema = "full" => (row.quantity >= 0 /\ row.reorder_level >= 0)

\* UPDATE inventory_items SET <updates> WHERE id = ...: the status trigger
\* fires on UPDATE OF stock.
InventoryRowAfterUpdate(row, updates) ==
    LET new == Merge(row, updates)
    IN  IF schema = "full" /\ "stock" \in DOMAIN updates
        THEN [new EXCEPT !.status = TriggerInventoryStatus(new.stock)]
        ELSE new

\* chk_inventory_stock_positive.
InventoryRowAccepted(row) ==
    schema = "full" => row.stock >= 0

\* ------------------------------------------------------------ work orders

NoOrder == [id |-> 0]
NoData == [productId |-> 0]
NoUpdates == [none |-> TRUE]
NoSnapshot == [none |-> TRUE]

\* productOrders.findIndex((order) => order.id === id); 0 stands for -1.
FindIndex(orders, id) ==
    IF \E k \in 1..Len(orders) : orders[k].id = id
    THEN CHOOSE k \in 1..Len(orders) :
             /\ orders[k].id = id
             /\ \A j \in 1..(k - 1) : orders[j].id # id
    ELSE 0

\* Mutant of Splice: array.splice(index), everything from index on is removed.
SpliceFrom(orders, index) ==
    IF index \in 1..Len(orders) THEN SubSeq(orders, 1, index - 1) ELSE orders

\* Mutant of Splice: nothing is removed.
SpliceNothing(orders, index) == orders

\* array.splice(index, 1): removes the element at index when there is one.
Splice(orders, index) ==
    IF index \in 1..Len(orders)
    THEN SubSeq(orders, 1, index - 1) \o SubSeq(orders, index + 1, Len(orders))
    ELSE orders

\* const newQuantity = (currentMaterial.quantity || 0) - material.quantity
DeductedQuantity(current, required) == current - required

\* Mutant of InsufficientStock: the check of the new quantity is left out.
InsufficientStockUnchecked(newQuantity) == FALSE

\* if (newQuantity < 0) throw new Error(`Insufficient stock ...`)
InsufficientStock(newQuantity) == newQuantity < 0

\* Mutant of CreditedStock: the stock is set to the produced quantity.
CreditedStockReplaced(stock, quantity) == quantity

\* const newQuantity = (product.stock || 0) + updatedOrder.quantity
CreditedStock(stock, quantity) == stock + quantity

\* The material lists a request may carry: one or two distinct materials
\* (the form refuses a material that is already selected).
MaterialLists ==
    { <<[materialId |-> m, quantity |-> q]>> : m \in MaterialIds, q \in ReqQuantities }
    \cup
    { <<[materialId |-> 1, quantity |-> q1], [materialId |-> 2, quantity |-> q2]>> :
          q1 \in ReqQuantities, q2 \in ReqQuantities }

OrderStatuses == {"in-progress", "completed", "cancelled"}

\* ------------------------------------------------------------ SKUs

\* A SKU is its prefix ("RAW-", "PRD-": one per table) and the digits after it;
\* a row holds the digits.

\* nextNumber.toString()
RECURSIVE NumberToString(_)
NumberToString(n) == IF n < 10 THEN <<n>> ELSE Append(NumberToString(n \div 10), n % 10)

\* .padStart(4, "0")
RECURSIVE PadStart(_, _)
PadStart(digits, width) ==
    IF Len(digits) >= width THEN digits ELSE PadStart(<<0>> \o digits, width)

SkuWidth == 4

\* `PRD-${nextNumber.toString().padStart(4, "0")}`, without the prefix.
FormatSku(n) == PadStart(NumberToString(n), SkuWidth)

\* Number.parseInt(lastSku.split("-")[1])
RECURSIVE ParseInt(_)
ParseInt(digits) ==
    IF Len(digits) = 0 THEN 0
    ELSE 10 * ParseInt(SubSeq(digits, 1, Len(digits) - 1)) + digits[Len(digits)]

\* The order of .order("sku"): character by character.
RECURSIVE SkuBefore(_, _)
SkuBefore(a, b) ==
    IF Len(a) = 0 THEN Len(b) > 0
    ELSE IF Len(b) = 0 THEN FALSE
    ELSE IF a[1] # b[1] THEN a[1] < b[1]
    ELSE SkuBefore(Tail(a), Tail(b))

\* .order("sku", { ascending: false }).limit(1), then lastNumber + 1; 1 when
\* the query returns no row.
NextSkuNumber(rows) ==
    IF DOMAIN rows = {} THEN 1
    ELSE LET last == CHOOSE r \in DOMAIN rows :
                         \A o \in DOMAIN rows : ~SkuBefore(rows[r].sku, rows[o].sku)
         IN  ParseInt(rows[last].sku) + 1

\* sku VARCHAR(50) UNIQUE
SkuTaken(rows, sku) == \E r \in DOMAIN rows : rows[r].sku = sku

\* BIGSERIAL: the id of the next row.
NextRowId(rows) == Cardinality(DOMAIN rows) + 1

\* ------------------------------------------------------------ calls

Idle == [op |-> "none", pc |-> "idle", orderData |-> NoData, i |-> 0, id |-> 0,
         status |-> "none", itemId |-> 0, updates |-> NoUpdates, orderIndex |-> 0,
         updatedOrder |-> NoOrder, result |-> "none", activity |-> "none"]

\* The store and the lists as a call finds them when it starts.
Snapshot ==
    [rawMaterials |-> rawMaterials, inventoryItems |-> inventoryItems,
     productOrders |-> productOrders, productOrderHistory |-> productOrderHistory,
     nextOrderId |-> nextOrderId]

\* The call has returned (or thrown): only what it was and how it ended remain.
Returned(c, result) ==
    [Idle EXCEPT !.op = c.op, !.id = c.id, !.status = c.status, !.result = result]

NoReturn == [proc |-> "none", op |-> "none", id |-> 0, status |-> "none",
             result |-> "none", activity |-> "none"]

\* Call p goes on as c says: to its next await, or back to its caller.
Resume(p, c) ==
    /\ call' = [call EXCEPT ![p] = IF c.pc = "idle" THEN Idle ELSE c]
    /\ returned' = IF c.pc = "idle"
                   THEN [proc |-> p, op |-> c.op, id |-> c.id, status |-> c.status,
                         result |-> c.result, activity |-> c.activity]
                   ELSE NoReturn

InFlight(p) == call[p].pc # "idle"

\* Call p is free to make the next call of the run.
Begin(p) ==
    /\ ~InFlight(p)
    /\ calls < MaxCalls
    /\ calls' = calls + 1

CreatesInFlight ==
    Cardinality({p \in Procs : call[p].op = "createProductOrder" /\ InFlight(p)})

\* No computation made.
NoCalc == [fn |-> "none"]

Init ==
    /\ schema \in Schemas
    /\ \E q \in InitQuantities :
           rawMaterials =
               [m \in MaterialIds |->
                   [quantity |-> q[m], reorder_level |-> DefaultReorderLevel,
                    status |-> RawMaterialStatus(q[m], DefaultReorderLevel),
                    sku |-> FormatSku(m)]]
    /\ \E s \in InitStocks :
           inventoryItems =
               (1 :> [stock |-> s,
                      status |-> IF schema = "full" THEN TriggerInventoryStatus(s)
                                 ELSE InventoryStatus(s),
                      sku |-> FormatSku(1)])
    /\ productOrders = <<>>
    /\ productOrderHistory = <<>>
    /\ nextOrderId = 1
    /\ calls = 0
    /\ call = [p \in Procs |-> Idle]
    /\ returned = NoReturn
    /\ pre = Snapshot
    /\ purchaseOrders = <<>>
    /\ purchaseOrderSeq = 0
    /\ calc = NoCalc

\* ------------------------------------------------------------ updateRawMaterial

\* updateRawMaterial, first await: SELECT quantity, reorder_level of the row.
\* With the row in hand the status is computed from the new quantity and the
\* new reorder level; without it (no row, or the read failed) updates carries no
\* status.
StatusFromCurrent(updates, currentMaterial) ==
    LET newQuantity == IF "quantity" \in DOMAIN updates
                       THEN updates.quantity ELSE currentMaterial.quantity
        newReorderLevel == IF "reorder_level" \in DOMAIN updates
                           THEN updates.reorder_level ELSE currentMaterial.reorder_level
    IN  [status |-> RawMaterialStatus(newQuantity, newReorderLevel)] @@ updates

UpdateRawMaterialSelect(p, ok) ==
    LET c == call[p]
    IN  /\ c.pc = "urm_select"
        /\ Resume(p,               [c EXCEPT !.pc = "urm_update",
                         !.updates =
                             IF ok /\ c.itemId \in DOMAIN rawMaterials
                             THEN StatusFromCurrent(c.updates, rawMaterials[c.itemId])
                             ELSE c.updates])
        /\ UNCHANGED <<calls, schema, rawMaterials, inventoryItems, productOrders,
                       productOrderHistory, nextOrderId>>

\* Mutant of LogActivityThrows: the error of the insert reaches the caller.
LogActivityRethrows(ok) == ~ok

\* logActivity(action, description): the insert into activities, ok or not,
\* sits in a try whose catch only writes to the console.
LogActivityThrows(ok) == FALSE

\* await logActivity(...) as the last statement before a function returns its
\* row: done is how the call goes on with the row, thrown how it goes on from
\* the function's own catch (return null). A call that returns tells whether
\* the activity was recorded.
AfterLogActivity(ok, done, thrown) ==
    LET next == IF LogActivityThrows(ok) THEN thrown ELSE done
    IN  IF next.pc = "idle"
        THEN [next EXCEPT !.activity = IF ok THEN "logged" ELSE "failed"]
        ELSE next

\* What the caller of updateRawMaterial does with a row returned.
AfterRawMaterialUpdated(c) ==
    IF c.op = "createProductOrder"
    THEN IF c.i < Len(c.orderData.materials)
         THEN [c EXCEPT !.pc = "getRawMaterials", !.i = c.i + 1,
                        !.itemId = 0, !.updates = NoUpdates]
         ELSE [c EXCEPT !.pc = "push", !.itemId = 0, !.updates = NoUpdates]
    ELSE Returned(c, "ok")

\* Mutant of AfterRawMaterialNotUpdated: the null is not looked at.
AfterRawMaterialNotUpdatedIgnored(c) == AfterRawMaterialUpdated(c)

\* What the caller does with null: createProductOrder throws, a direct call
\* hands the null on.
AfterRawMaterialNotUpdated(c) ==
    IF c.op = "createProductOrder"
    THEN Returned(c, "UpdateFailed")
    ELSE Returned(c, "null")

\* updateRawMaterial, second await: UPDATE ... .eq("id", id).select().single(),
\* then await logActivity and return data.
UpdateRawMaterialWrite(p) ==
    LET c == call[p]
    IN  /\ c.pc = "urm_update"
        /\ c.itemId \in DOMAIN rawMaterials
        /\ LET row == RawMaterialRowAfterUpdate(rawMaterials[c.itemId], c.updates)
           IN  /\ RawMaterialRowAccepted(row)
               /\ rawMaterials' = [rawMaterials EXCEPT ![c.itemId] = row]
        /\ \E ok \in BOOLEAN :
               Resume(p, AfterLogActivity(ok, AfterRawMaterialUpdated(c),
                                          AfterRawMaterialNotUpdated(c)))
        /\ UNCHANGED <<calls, schema, inventoryItems, productOrders, productOrderHistory,
                       nextOrderId>>

\* The update returns an error: the store failed, no row has the id, or a
\* CHECK constraint refused the row.
UpdateRawMaterialError(p) ==
    LET c == call[p]
    IN  /\ c.pc = "urm_update"
        /\ Resume(p, AfterRawMaterialNotUpdated(c))
        /\ UNCHANGED <<calls, schema, rawMaterials, inventoryItems, productOrders,
                       productOrderHistory, nextOrderId>>

\* ------------------------------------------------------------ createProductOrder

CreateProductOrder(p, orderData) ==
    /\ Begin(p)
    /\ nextOrderId + CreatesInFlight <= MaxOrders
    /\ Resume(p,           [Idle EXCEPT !.op = "createProductOrder", !.pc = "getRawMaterials",
                        !.orderData = orderData, !.i = 1])
    /\ UNCHANGED <<schema, rawMaterials, inventoryItems, productOrders,
                   productOrderHistory, nextOrderId>>

\* await getRawMaterials(); find the material; check the stock; call
\* updateRawMaterial (which runs to its first await).
CreateAfterGetRawMaterials(c, found) ==
    LET material == c.orderData.materials[c.i]
    IN  IF ~found
        THEN Returned(c, "NotFound")
        ELSE LET newQuantity ==
                     DeductedQuantity(rawMaterials[material.materialId].quantity,
                                      material.quantity)
             IN  IF InsufficientStock(newQuantity)
                 THEN Returned(c, "InsufficientStock")
                 ELSE [c EXCEPT !.pc = "urm_select",
                                !.itemId = material.materialId,
                                !.updates = [quantity |-> newQuantity]]

CreateGetRawMaterials(p, ok) ==
    LET c == call[p]
    IN  /\ c.op = "createProductOrder"
        /\ c.pc = "getRawMaterials"
        /\ Resume(p,               CreateAfterGetRawMaterials(c,
                   ok /\ c.orderData.materials[c.i].materialId \in DOMAIN rawMaterials))
        /\ UNCHANGED <<calls, schema, rawMaterials, inventoryItems, productOrders,
                       productOrderHistory, nextOrderId>>

\* Mutant of NewOrder: the id is taken from the length of the active list.
NewOrderByCount(orderData) ==
    [id |-> Len(productOrders) + 1, productId |-> orderData.productId,
     quantity |-> orderData.quantity, materials |-> orderData.materials,
     status |-> orderData.status, completedAt |-> "unset"]

\* The order createProductOrder builds once the loop is over.
NewOrder(orderData) ==
    [id |-> nextOrderId, productId |-> orderData.productId,
     quantity |-> orderData.quantity, materials |-> orderData.materials,
     status |-> orderData.status, completedAt |-> "unset"]

\* nextOrderId++; productOrders.push(newOrder); return newOrder
CreatePush(p) ==
    LET c == call[p]
    IN  /\ c.op = "createProductOrder"
        /\ c.pc = "push"
        /\ productOrders' = Append(productOrders, NewOrder(c.orderData))
        /\ nextOrderId' = nextOrderId + 1
        /\ Resume(p,               Returned([c EXCEPT !.id = nextOrderId,
                                  !.updatedOrder = NewOrder(c.orderData)], "ok"))
        /\ UNCHANGED <<calls, schema, rawMaterials, inventoryItems, productOrderHistory>>

\* ------------------------------------------------------------ updateInventoryItem

\* updateInventoryItem before its await: the status is set from updates.stock.
WithInventoryStatus(updates) ==
    IF "stock" \in DOMAIN updates
    THEN [status |-> InventoryStatus(updates.stock)] @@ updates
    ELSE updates

\* ------------------------------------------------------------ updateProductOrderStatus

\* { ...productOrders[orderIndex], status, updatedAt }, completedAt when completed.
UpdatedOrder(order, status) ==
    IF status = "completed"
    THEN [order EXCEPT !.status = status, !.completedAt = "set"]
    ELSE [order EXCEPT !.status = status]

\* The id is not in the active list: return null.
StatusNotFound(p, id, status) ==
    /\ Begin(p)
    /\ FindIndex(productOrders, id) = 0
    /\ Resume(p,           Returned([Idle EXCEPT !.op = "updateProductOrderStatus", !.id = id,
                                 !.status = status], "null"))
    /\ UNCHANGED <<schema, rawMaterials, inventoryItems, productOrders,
                   productOrderHistory, nextOrderId>>

\* A status other than "completed": productOrders[orderIndex] = updatedOrder.
StatusSet(p, id, status) ==
    LET orderIndex == FindIndex(productOrders, id)
    IN  /\ Begin(p)
        /\ status # "completed"
        /\ orderIndex # 0
        /\ productOrders' = [productOrders EXCEPT ![orderIndex] =
                                 UpdatedOrder(productOrders[orderIndex], status)]
        /\ Resume(p,               Returned([Idle EXCEPT !.op = "updateProductOrderStatus", !.id = id,
                                     !.status = status,
                                     !.orderIndex = orderIndex,
                                     !.updatedOrder =
                                         UpdatedOrder(productOrders[orderIndex], status)],
                        "ok"))
        /\ UNCHANGED <<schema, rawMaterials, inventoryItems, productOrderHistory,
                       nextOrderId>>

\* Mutant of CompleteStart: the copy is stored in the active list before the
\* stock is credited.
CompleteStartStoring(p, id) ==
    LET orderIndex == FindIndex(productOrders, id)
    IN  /\ Begin(p)
        /\ orderIndex # 0
        /\ productOrders' = [productOrders EXCEPT ![orderIndex] =
                                 UpdatedOrder(productOrders[orderIndex], "completed")]
        /\ Resume(p, [Idle EXCEPT !.op = "updateProductOrderStatus",
                                  !.pc = "getInventoryItems", !.id = id,
                                  !.status = "completed",
                                  !.orderIndex = orderIndex,
                                  !.updatedOrder =
                                      UpdatedOrder(productOrders[orderIndex], "completed")])
        /\ UNCHANGED <<schema, rawMaterials, inventoryItems, productOrderHistory,
                       nextOrderId>>

\* "completed": the index is found, the copy is made, and the call awaits
\* getInventoryItems().
CompleteStart(p, id) ==
    LET orderIndex == FindIndex(productOrders, id)
    IN  /\ Begin(p)
        /\ orderIndex # 0
        /\ Resume(p,               [Idle EXCEPT !.op = "updateProductOrderStatus",
                            !.pc = "getInventoryItems", !.id = id,
                            !.status = "completed",
                            !.orderIndex = orderIndex,
                            !.updatedOrder =
                                UpdatedOrder(productOrders[orderIndex], "completed")])
        /\ UNCHANGED <<schema, rawMaterials, inventoryItems, productOrders,
                       productOrderHistory, nextOrderId>>

\* await getInventoryItems(); find the product; call updateInventoryItem.
CompleteAfterGetInventoryItems(c, found) ==
    IF ~found
    THEN Returned(c, "ProductNotFound")
    ELSE [c EXCEPT !.pc = "uii_update",
                   !.itemId = c.updatedOrder.productId,
                   !.updates = WithInventoryStatus(
                       [stock |-> CreditedStock(
                                      inventoryItems[c.updatedOrder.productId].stock,
                                      c.updatedOrder.quantity)])]

CompleteGetInventoryItems(p, ok) ==
    LET c == call[p]
    IN  /\ c.op = "updateProductOrderStatus"
        /\ c.pc = "getInventoryItems"
        /\ Resume(p,               CompleteAfterGetInventoryItems(c,
                   ok /\ c.updatedOrder.productId \in DOMAIN inventoryItems))
        /\ UNCHANGED <<calls, schema, rawMaterials, inventoryItems, productOrders,
                       productOrderHistory, nextOrderId>>

\* What the caller of updateInventoryItem does with a row returned.
AfterInventoryUpdated(c) ==
    IF c.op = "updateProductOrderStatus"
    THEN [c EXCEPT !.pc = "move", !.itemId = 0, !.updates = NoUpdates]
    ELSE Returned(c, "ok")

\* What the caller does with null: updateProductOrderStatus throws.
AfterInventoryNotUpdated(c) ==
    IF c.op = "updateProductOrderStatus"
    THEN Returned(c, "UpdateFailed")
    ELSE Returned(c, "null")

\* updateInventoryItem's await: UPDATE ... .eq("id", id).select().single(),
\* then await logActivity and return data.
UpdateInventoryItemWrite(p) ==
    LET c == call[p]
    IN  /\ c.pc = "uii_update"
        /\ c.itemId \in DOMAIN inventoryItems
        /\ LET row == InventoryRowAfterUpdate(inventoryItems[c.itemId], c.updates)
           IN  /\ InventoryRowAccepted(row)
               /\ inventoryItems' = [inventoryItems EXCEPT ![c.itemId] = row]
        /\ \E ok \in BOOLEAN :
               Resume(p, AfterLogActivity(ok, AfterInventoryUpdated(c),
                                          AfterInventoryNotUpdated(c)))
        /\ UNCHANGED <<calls, schema, rawMaterials, productOrders, productOrderHistory,
                       nextOrderId>>

UpdateInventoryItemError(p) ==
    LET c == call[p]
    IN  /\ c.pc = "uii_update"
        /\ Resume(p, AfterInventoryNotUpdated(c))
        /\ UNCHANGED <<calls, schema, rawMaterials, inventoryItems, productOrders,
                       productOrderHistory, nextOrderId>>

\* productOrders.splice(orderIndex, 1); productOrderHistory.push(updatedOrder)
CompleteMove(p) ==
    LET c == call[p]
    IN  /\ c.op = "updateProductOrderStatus"
        /\ c.pc = "move"
        /\ productOrders' = Splice(productOrders, c.orderIndex)
        /\ productOrderHistory' = Append(productOrderHistory, c.updatedOrder)
        /\ Resume(p, Returned(c, "ok"))
        /\ UNCHANGED <<calls, schema, rawMaterials, inventoryItems, nextOrderId>>

\* ------------------------------------------------------------ deleteProductOrder

DeleteNotFound(p, id) ==
    /\ Begin(p)
    /\ FindIndex(productOrders, id) = 0
    /\ Resume(p,           Returned([Idle EXCEPT !.op = "deleteProductOrder", !.id = id], "false"))
    /\ UNCHANGED <<schema, rawMaterials, inventoryItems, productOrders,
                   productOrderHistory, nextOrderId>>

DeleteProductOrder(p, id) ==
    LET orderIndex == FindIndex(productOrders, id)
    IN  /\ Begin(p)
        /\ orderIndex # 0
        /\ productOrders' = Splice(productOrders, orderIndex)
        /\ Resume(p,               Returned([Idle EXCEPT !.op = "deleteProductOrder", !.id = id, !.orderIndex = orderIndex,
                                     !.updatedOrder = productOrders[orderIndex]],
                        "true"))
        /\ UNCHANGED <<schema, rawMaterials, inventoryItems, productOrderHistory,
                       nextOrderId>>

\* ------------------------------------------------------------ direct item calls

\* updateRawMaterial(id, updates) called by a screen: with a quantity or a
\* reorder level in updates it first reads the row.
UpdateRawMaterial(p, id, updates) ==
    /\ Begin(p)
    /\ Resume(p, [Idle EXCEPT !.op = "updateRawMaterial", !.pc = "urm_select",
                              !.id = id, !.itemId = id, !.updates = updates])
    /\ UNCHANGED <<schema, rawMaterials, inventoryItems, productOrders,
                   productOrderHistory, nextOrderId>>

\* updateInventoryItem(id, updates) called by a screen.
UpdateInventoryItem(p, id, updates) ==
    /\ Begin(p)
    /\ Resume(p, [Idle EXCEPT !.op = "updateInventoryItem", !.pc = "uii_update",
                              !.id = id, !.itemId = id,
                              !.updates = WithInventoryStatus(updates)])
    /\ UNCHANGED <<schema, rawMaterials, inventoryItems, productOrders,
                   productOrderHistory, nextOrderId>>

\* addRawMaterial(material): awaits the SKU query.
AddRawMaterial(p, quantity) ==
    /\ Begin(p)
    /\ Cardinality(DOMAIN rawMaterials) < MaxRows
    /\ Resume(p, [Idle EXCEPT !.op = "addRawMaterial", !.pc = "arm_select",
                              !.updates = [quantity |-> quantity]])
    /\ UNCHANGED <<schema, rawMaterials, inventoryItems, productOrders,
                   productOrderHistory, nextOrderId>>

\* { ...material, sku, status, unit, reorder_level } with reorder_level = 10.
NewMaterial(material, nextNumber) ==
    [quantity |-> material.quantity,
     reorder_level |-> DefaultReorderLevel,
     status |-> RawMaterialStatus(material.quantity, DefaultReorderLevel),
     sku |-> FormatSku(nextNumber)]

\* The SKU query has answered (with no row when it failed).
AddRawMaterialSelect(p, ok) ==
    LET c == call[p]
    IN  /\ c.pc = "arm_select"
        /\ Resume(p, [c EXCEPT !.pc = "arm_insert",
                               !.updates = NewMaterial(c.updates,
                                   IF ok THEN NextSkuNumber(rawMaterials) ELSE 1)])
        /\ UNCHANGED <<calls, schema, rawMaterials, inventoryItems, productOrders,
                       productOrderHistory, nextOrderId>>

\* INSERT INTO raw_materials: the row after the BEFORE INSERT status trigger.
RawMaterialRowInserted(row) ==
    IF schema = "full"
    THEN [row EXCEPT !.status = TriggerRawMaterialStatus(row.quantity, row.reorder_level)]
    ELSE row

AddRawMaterialInsert(p) ==
    LET c == call[p]
        row == RawMaterialRowInserted(c.updates)
        id == NextRowId(rawMaterials)
    IN  /\ c.pc = "arm_insert"
        /\ ~SkuTaken(rawMaterials, row.sku)
        /\ RawMaterialRowAccepted(row)
        /\ rawMaterials' = rawMaterials @@ (id :> row)
        /\ Resume(p, Returned([c EXCEPT !.id = id], "ok"))
        /\ UNCHANGED <<calls, schema, inventoryItems, productOrders,
                       productOrderHistory, nextOrderId>>

\* The insert returns an error: the store failed or a constraint refused the row.
AddRawMaterialError(p) ==
    LET c == call[p]
    IN  /\ c.pc = "arm_insert"
        /\ Resume(p, Returned(c, "null"))
        /\ UNCHANGED <<calls, schema, rawMaterials, inventoryItems, productOrders,
                       productOrderHistory, nextOrderId>>

\* addInventoryItem(item): awaits the SKU query.
AddInventoryItem(p, stock) ==
    /\ Begin(p)
    /\ Cardinality(DOMAIN inventoryItems) < MaxRows
    /\ Resume(p, [Idle EXCEPT !.op = "addInventoryItem", !.pc = "aii_select",
                              !.updates = [stock |-> stock]])
    /\ UNCHANGED <<schema, rawMaterials, inventoryItems, productOrders,
                   productOrderHistory, nextOrderId>>

\* { ...item, sku, status, price }
NewItem(item, nextNumber) ==
    [stock |-> item.stock,
     status |-> InventoryStatus(item.stock),
     sku |-> FormatSku(nextNumber)]

AddInventoryItemSelect(p, ok) ==
    LET c == call[p]
    IN  /\ c.pc = "aii_select"
        /\ Resume(p, [c EXCEPT !.pc = "aii_insert",
                               !.updates = NewItem(c.updates,
                                   IF ok THEN NextSkuNumber(inventoryItems) ELSE 1)])
        /\ UNCHANGED <<calls, schema, rawMaterials, inventoryItems, productOrders,
                       productOrderHistory, nextOrderId>>

\* INSERT INTO inventory_items: the row after the BEFORE INSERT status trigger.
InventoryRowInserted(row) ==
    IF schema = "full"
    THEN [row EXCEPT !.status = TriggerInventoryStatus(row.stock)]
    ELSE row

AddInventoryItemInsert(p) ==
    LET c == call[p]
        row == InventoryRowInserted(c.updates)
        id == NextRowId(inventoryItems)
    IN  /\ c.pc = "aii_insert"
        /\ ~SkuTaken(inventoryItems, row.sku)
        /\ InventoryRowAccepted(row)
        /\ inventoryItems' = inventoryItems @@ (id :> row)
        /\ Resume(p, Returned([c EXCEPT !.id = id], "ok"))
        /\ UNCHANGED <<calls, schema, rawMaterials, productOrders,
                       productOrderHistory, nextOrderId>>

AddInventoryItemError(p) ==
    LET c == call[p]
    IN  /\ c.pc = "aii_insert"
        /\ Resume(p, Returned(c, "null"))
        /\ UNCHANGED <<calls, schema, rawMaterials, inventoryItems, productOrders,
                       productOrderHistory, nextOrderId>>

\* ------------------------------------------------------------ specifications

OrderIds == 1..MaxOrders

OrderRequests ==
    [productId : ProductIds, quantity : OrderQuantities, materials : MaterialLists,
     status : {"pending"}]

\* One step of a createProductOrder call, the request drawn from requests.
CreateStep(p, requests) ==
    \/ \E orderData \in requests : CreateProductOrder(p, orderData)
    \/ \E ok \in BOOLEAN : CreateGetRawMaterials(p, ok)
    \/ \E ok \in BOOLEAN : UpdateRawMaterialSelect(p, ok)
    \/ UpdateRawMaterialWrite(p)
    \/ UpdateRawMaterialError(p)
    \/ CreatePush(p)

\* One step of an updateProductOrderStatus call, the status drawn from statuses.
StatusStep(p, statuses) ==
    \/ \E id \in OrderIds, status \in statuses : StatusNotFound(p, id, status)
    \/ \E id \in OrderIds, status \in statuses : StatusSet(p, id, status)
    \/ \E id \in OrderIds : CompleteStart(p, id)
    \/ \E ok \in BOOLEAN : CompleteGetInventoryItems(p, ok)
    \/ UpdateInventoryItemWrite(p)
    \/ UpdateInventoryItemError(p)
    \/ CompleteMove(p)

\* A deleteProductOrder call: it has no await.
DeleteStep(p) ==
    \/ \E id \in OrderIds : DeleteNotFound(p, id)
    \/ \E id \in OrderIds : DeleteProductOrder(p, id)

\* createProductOrder, updateProductOrderStatus and deleteProductOrder calls
\* that interleave at their awaits, for the products the store holds.
NextOrders ==
    /\ \E p \in Procs :
           \/ CreateStep(p, {r \in OrderRequests : r.productId = 1})
           \/ StatusStep(p, {"completed", "cancelled"})
           \/ DeleteStep(p)
    /\ UNCHANGED <<pre, purchaseOrders, purchaseOrderSeq, calc>>

SpecOrders == Init /\ [][NextOrders]_vars

\* Work-order calls one after the other: a call starts when the one before it
\* has returned.
NextSeq ==
    /\ \/ CreateStep("t1", OrderRequests)
       \/ StatusStep("t1", OrderStatuses)
       \/ DeleteStep("t1")
    /\ pre' = IF InFlight("t1") THEN pre ELSE Snapshot
    /\ UNCHANGED <<purchaseOrders, purchaseOrderSeq, calc>>

SpecSeq == Init /\ [][NextSeq]_vars

\* The updates a direct updateRawMaterial call carries.
RawMaterialUpdates ==
    { [quantity |-> q] : q \in UpdateQuantities }
    \cup { [reorder_level |-> r] : r \in UpdateReorderLevels }

\* One step of a direct call on raw_materials.
RawMaterialStep(p, ids) ==
    \/ \E id \in ids, updates \in RawMaterialUpdates :
           UpdateRawMaterial(p, id, updates)
    \/ \E ok \in BOOLEAN : UpdateRawMaterialSelect(p, ok)
    \/ UpdateRawMaterialWrite(p)
    \/ UpdateRawMaterialError(p)
    \/ \E quantity \in AddQuantities : AddRawMaterial(p, quantity)
    \/ \E ok \in BOOLEAN : AddRawMaterialSelect(p, ok)
    \/ AddRawMaterialInsert(p)
    \/ AddRawMaterialError(p)

\* One step of a direct call on inventory_items.
InventoryStep(p, ids) ==
    \/ \E id \in ids, stock \in UpdateQuantities :
           UpdateInventoryItem(p, id, [stock |-> stock])
    \/ UpdateInventoryItemWrite(p)
    \/ UpdateInventoryItemError(p)
    \/ \E stock \in AddQuantities : AddInventoryItem(p, stock)
    \/ \E ok \in BOOLEAN : AddInventoryItemSelect(p, ok)
    \/ AddInventoryItemInsert(p)
    \/ AddInventoryItemError(p)

\* A work order for product 1 out of material 1.
SimpleRequests ==
    {r \in OrderRequests : r.productId = 1 /\ Len(r.materials) = 1
                           /\ r.materials[1].materialId = 1}

\* Every operation on the stock, interleaved at the awaits.
Next ==
    /\ \E p \in Procs :
           \/ CreateStep(p, SimpleRequests)
           \/ StatusStep(p, {"completed"})
           \/ RawMaterialStep(p, {1})
           \/ InventoryStep(p, {1})
    /\ UNCHANGED <<pre, purchaseOrders, purchaseOrderSeq, calc>>

Spec == Init /\ [][Next]_vars

\* ------------------------------------------------------------ status rule, site by site

\* Quantities and reorder levels the status rule is computed for.
MaxQuantity == 22
MaxLevel == 12

\* getRawMaterials: the cutoff of the status fallback.
FallbackCutoff == 10

\* getRawMaterials: item.quantity > 10 ? "in-stock" : item.quantity > 0 ?
\* "low-stock" : "out-of-stock", for a row whose status is null.
FallbackStatus(quantity) ==
    IF quantity > FallbackCutoff THEN "in-stock"
    ELSE IF quantity > 0 THEN "low-stock"
    ELSE "out-of-stock"

\* getRawMaterials: reorder_level: item.reorder_level || 10 (0 is falsy).
FallbackReorderLevel(reorder_level) ==
    IF reorder_level = 0 THEN DefaultReorderLevel ELSE reorder_level

\* The variables of the store and of the work orders.
programVars == <<schema, rawMaterials, inventoryItems, productOrders,
                 productOrderHistory, nextOrderId, calls, call, returned, pre,
                 purchaseOrders, purchaseOrderSeq>>

\* Nothing stored, nothing called.
Quiescent ==
    /\ schema = "basic"
    /\ rawMaterials = <<>>
    /\ inventoryItems = <<>>
    /\ productOrders = <<>>
    /\ productOrderHistory = <<>>
    /\ nextOrderId = 1
    /\ calls = 0
    /\ call = [p \in Procs |-> Idle]
    /\ returned = NoReturn
    /\ pre = NoSnapshot
    /\ purchaseOrders = <<>>
    /\ purchaseOrderSeq = 0

\* An item's quantity (a product's stock) and reorder level.
InitStatus ==
    /\ Quiescent
    /\ calc \in [fn : {"item"}, quantity : 0..MaxQuantity, reorderLevel : 0..MaxLevel]

\* A site has computed status for the item; the item it stores or returns has
\* this reorder level.
StatusAt(site, reorderLevel, status) ==
    /\ calc.fn = "item"
    /\ calc' = [fn |-> site, quantity |-> calc.quantity,
                givenLevel |-> calc.reorderLevel,
                reorderLevel |-> reorderLevel, value |-> status]
    /\ UNCHANGED programVars

\* Products have no reorder level column: the threshold is the fixed cutoff.
StatusAddInventoryItem ==
    StatusAt("addInventoryItem", ProductLowStockCutoff, InventoryStatus(calc.quantity))

StatusUpdateInventoryItem ==
    StatusAt("updateInventoryItem", ProductLowStockCutoff,
             InventoryStatus(calc.quantity))

\* addRawMaterial stores reorder_level 10 whatever the caller passed.
StatusAddRawMaterial ==
    StatusAt("addRawMaterial", DefaultReorderLevel,
             RawMaterialStatus(calc.quantity, DefaultReorderLevel))

StatusUpdateRawMaterial ==
    StatusAt("updateRawMaterial", calc.reorderLevel,
             RawMaterialStatus(calc.quantity, calc.reorderLevel))

\* A row without status read by getRawMaterials.
StatusGetRawMaterials ==
    StatusAt("getRawMaterials", FallbackReorderLevel(calc.reorderLevel),
             FallbackStatus(calc.quantity))

StatusInventoryTrigger ==
    StatusAt("update_inventory_status", ProductLowStockCutoff,
             TriggerInventoryStatus(calc.quantity))

StatusRawMaterialsTrigger ==
    StatusAt("update_raw_materials_status", calc.reorderLevel,
             TriggerRawMaterialStatus(calc.quantity, calc.reorderLevel))

NextStatus ==
    \/ StatusAddInventoryItem
    \/ StatusUpdateInventoryItem
    \/ StatusAddRawMaterial
    \/ StatusUpdateRawMaterial
    \/ StatusGetRawMaterials
    \/ StatusInventoryTrigger
    \/ StatusRawMaterialsTrigger

SpecStatus == InitStatus /\ [][NextStatus]_vars

\* ------------------------------------------------------------ replenishment

\* generatePurchaseOrdersForLowStock: item.reorder_level || 20.
OrderReorderLevelFallback == 20

\* generateLowStockReport: buffer of twice the level, floor 0.
BufferFactor == 2

Max(a, b) == IF a >= b THEN a ELSE b

\* A raw_materials row as getRawMaterials returns it: quantity || 0,
\* reorder_level || 10, status as stored (the column is NOT NULL).
GetRawMaterialsItem(row) ==
    [quantity |-> row.quantity,
     reorder_level |-> FallbackReorderLevel(row.reorder_level),
     status |-> row.status]

\* The filter of both functions: status low-stock or out-of-stock.
IsLowStock(item) == item.status \in {"low-stock", "out-of-stock"}

\* Mutant of QuantityNeeded: the floor of one reorder level is left out.
QuantityNeededNoFloor(item) ==
    LET reorderLevel == IF item.reorder_level = 0 THEN OrderReorderLevelFallback
                        ELSE item.reorder_level
    IN  reorderLevel * BufferFactor - item.quantity

\* generatePurchaseOrdersForLowStock:
\* Math.max(reorderLevel * 2 - currentQuantity, reorderLevel).
QuantityNeeded(item) ==
    LET reorderLevel == IF item.reorder_level = 0 THEN OrderReorderLevelFallback
                        ELSE item.reorder_level
        currentQuantity == item.quantity
    IN  Max(reorderLevel * BufferFactor - currentQuantity, reorderLevel)

\* generateLowStockReport:
\* Math.max((item.reorder_level || 10) * 2 - item.quantity, 0).
ReorderNeeded(item) ==
    Max(FallbackReorderLevel(item.reorder_level) * BufferFactor - item.quantity, 0)

Statuses == {"in-stock", "low-stock", "out-of-stock"}

\* A stored raw material. Its status is the one the last write of the row
\* stored, which updateRawMaterial computes from the row it read before.
InitReorder ==
    /\ Quiescent
    /\ calc \in [fn : {"row"}, quantity : 0..MaxQuantity, reorder_level : 0..MaxLevel,
                 status : Statuses]

\* handleGeneratePOs: getRawMaterials(), then the item of the purchase order
\* generatePurchaseOrdersForLowStock builds for a low-stock material.
OrderForLowStock ==
    /\ calc.fn = "row"
    /\ "ordered" \notin DOMAIN calc
    /\ IsLowStock(GetRawMaterialsItem(calc))
    /\ calc' = [ordered |-> QuantityNeeded(GetRawMaterialsItem(calc))] @@ calc
    /\ UNCHANGED programVars

\* generateLowStockReport: getRawMaterials(), then the report line of a
\* low-stock material.
ReportLowStock ==
    /\ calc.fn = "row"
    /\ "reported" \notin DOMAIN calc
    /\ IsLowStock(GetRawMaterialsItem(calc))
    /\ calc' = [reported |-> ReorderNeeded(GetRawMaterialsItem(calc))] @@ calc
    /\ UNCHANGED programVars

NextReorder == OrderForLowStock \/ ReportLowStock

SpecReorder == InitReorder /\ [][NextReorder]_vars

\* ------------------------------------------------------------ SKU sequence

\* Numbers of the SKUs a table may hold: small ones with gaps, and the ones
\* around the fifth digit.
SkuNumbers == {1, 2, 3, 4, 9998, 9999, 10000, 10001}

\* The rows of a table whose SKUs have these numbers, each SKU as the code
\* formatted it.
RowsWithSkus(numbers) == [n \in numbers |-> [sku |-> FormatSku(n)]]

\* The SKUs of one prefix a table holds.
InitSku ==
    /\ Quiescent
    /\ calc \in [fn : {"skus"}, numbers : SUBSET SkuNumbers]

\* The sku a call computes for its new row.
SkuAt(site) ==
    /\ calc.fn = "skus"
    /\ calc' = [fn |-> site, numbers |-> calc.numbers,
                sku |-> FormatSku(NextSkuNumber(RowsWithSkus(calc.numbers)))]
    /\ UNCHANGED programVars

\* addInventoryItem: `PRD-${...}` from the last of the PRD-% SKUs.
SkuAddInventoryItem == SkuAt("addInventoryItem")

\* addRawMaterial: `RAW-${...}` from the last of the RAW-% SKUs.
SkuAddRawMaterial == SkuAt("addRawMaterial")

NextSku == SkuAddInventoryItem \/ SkuAddRawMaterial

SpecSku == InitSku /\ [][NextSku]_vars

\* ------------------------------------------------------------ purchase orders

\* The variables the purchase-order functions leave alone.
workOrderVars == <<schema, rawMaterials, inventoryItems, productOrders,
                   productOrderHistory, nextOrderId, pre, calc>>

\* Purchase orders inserted in a run.
MaxPurchaseOrders == 3

\* The suppliers of the raw materials.
Suppliers == {"s1", "s2"}

\* The statuses the edit form sets.
UpdateStatuses == {"pending", "approved"}

\* Mutant of NextPoNumber: a sequence of its own, one number per call made.
NextPoNumberByCalls(rows) == calls

\* .order("created_at", { ascending: false }).limit(1), then the number matched
\* by /PO-(\d+)/ plus 1; 1 when the table is empty. rows are in the order of
\* their created_at.
NextPoNumber(rows) ==
    IF Len(rows) = 0 THEN 1 ELSE ParseInt(rows[Len(rows)].po_number) + 1

\* po_number VARCHAR(50) UNIQUE
PoNumberTaken(rows, po_number) ==
    \E k \in 1..Len(rows) : rows[k].po_number = po_number

\* delete().eq("id", id); the items go with the order (ON DELETE CASCADE).
WithoutId(rows, id) == SelectSeq(rows, LAMBDA row : row.id # id)

\* The ids of the rows stored.
PurchaseOrderIds == {purchaseOrders[k].id : k \in 1..Len(purchaseOrders)}

\* The rows with the row of this id replaced.
WithRow(rows, id, new) ==
    [k \in 1..Len(rows) |-> IF rows[k].id = id THEN new ELSE rows[k]]

\* The row of this id.
RowOf(rows, id) == rows[CHOOSE k \in 1..Len(rows) : rows[k].id = id]

\* insert({ po_number, supplier, ... }): status DEFAULT 'pending'; the line
\* items are not stored yet.
InsertedPurchaseOrder(id, po_number, supplier) ==
    [id |-> id, po_number |-> po_number, supplier |-> supplier,
     status |-> "pending", items |-> FALSE]

\* Mutant of PurchaseOrderAfterUpdate: the update gives the order a number.
PurchaseOrderRenumbered(row, updates) ==
    [Merge(row, updates) EXCEPT !.po_number = FormatSku(ParseInt(row.po_number) + 1)]

\* update(updates).eq("id", id)
PurchaseOrderAfterUpdate(row, updates) == Merge(row, updates)

\* The supplier the call is making an order for.
Supplier(c) == c.orderData.suppliers[c.i]

\* for (const [supplier, items] of Object.entries(itemsBySupplier)): the next
\* supplier, or return createdOrders.
NextSupplier(c) ==
    IF c.i < Len(c.orderData.suppliers)
    THEN [c EXCEPT !.pc = "gen_check", !.i = c.i + 1, !.id = 0, !.updates = NoUpdates]
    ELSE Returned([c EXCEPT !.id = 0], "ok")

\* What the caller of createPurchaseOrder does with the order returned.
AfterPurchaseOrderCreated(c) ==
    IF c.op = "generatePurchaseOrdersForLowStock"
    THEN NextSupplier(c)
    ELSE Returned(c, "ok")

\* What the caller does with null: generatePurchaseOrdersForLowStock goes on
\* with the next supplier.
AfterPurchaseOrderNotCreated(c) ==
    IF c.op = "generatePurchaseOrdersForLowStock"
    THEN NextSupplier(c)
    ELSE Returned(c, "null")

\* createPurchaseOrder(orderData) is called by a screen.
CreatePurchaseOrder(p, supplier) ==
    /\ Begin(p)
    /\ Resume(p, [Idle EXCEPT !.op = "createPurchaseOrder", !.pc = "po_select",
                              !.orderData = [suppliers |-> <<supplier>>], !.i = 1])
    /\ UNCHANGED <<purchaseOrders, purchaseOrderSeq, workOrderVars>>

\* The select of the last po_number: on an error the call returns null,
\* otherwise po_number = `PO-${nextNumber.toString().padStart(4, "0")}`.
CreatePurchaseOrderSelect(p, ok) ==
    LET c == call[p]
    IN  /\ c.pc = "po_select"
        /\ Resume(p, IF ok
                     THEN [c EXCEPT !.pc = "po_insert",
                                    !.updates =
                                        [po_number |->
                                             FormatSku(NextPoNumber(purchaseOrders))]]
                     ELSE AfterPurchaseOrderNotCreated(c))
        /\ UNCHANGED <<calls, purchaseOrders, purchaseOrderSeq, workOrderVars>>

\* The insert of the order succeeds; id SERIAL takes the next value of the
\* sequence.
CreatePurchaseOrderInsert(p) ==
    LET c == call[p]
        id == purchaseOrderSeq + 1
    IN  /\ c.pc = "po_insert"
        /\ purchaseOrderSeq < MaxPurchaseOrders
        /\ ~PoNumberTaken(purchaseOrders, c.updates.po_number)
        /\ purchaseOrders' =
               Append(purchaseOrders,
                      InsertedPurchaseOrder(id, c.updates.po_number, Supplier(c)))
        /\ purchaseOrderSeq' = id
        /\ Resume(p, [c EXCEPT !.pc = "po_items", !.id = id])
        /\ UNCHANGED <<calls, workOrderVars>>

\* The insert returns an error: return null.
CreatePurchaseOrderInsertError(p) ==
    LET c == call[p]
    IN  /\ c.pc = "po_insert"
        /\ Resume(p, AfterPurchaseOrderNotCreated(c))
        /\ UNCHANGED <<calls, purchaseOrders, purchaseOrderSeq, workOrderVars>>

\* The insert of the items succeeds (po_id REFERENCES purchase_orders(id));
\* then await logActivity and return the order.
CreatePurchaseOrderItems(p) ==
    LET c == call[p]
    IN  /\ c.pc = "po_items"
        /\ c.id \in PurchaseOrderIds
        /\ purchaseOrders' =
               WithRow(purchaseOrders, c.id,
                       [RowOf(purchaseOrders, c.id) EXCEPT !.items = TRUE])
        /\ \E ok \in BOOLEAN :
               Resume(p, AfterLogActivity(ok, AfterPurchaseOrderCreated(c),
                                          AfterPurchaseOrderNotCreated(c)))
        /\ UNCHANGED <<calls, purchaseOrderSeq, workOrderVars>>

\* The insert of the items fails: the order is deleted again (the outcome of
\* that delete is not looked at) and null is returned.
CreatePurchaseOrderRollback(p, ok) ==
    LET c == call[p]
    IN  /\ c.pc = "po_items"
        /\ purchaseOrders' = IF ok THEN WithoutId(purchaseOrders, c.id)
                             ELSE purchaseOrders
        /\ Resume(p, AfterPurchaseOrderNotCreated(c))
        /\ UNCHANGED <<calls, purchaseOrderSeq, workOrderVars>>

\* updatePurchaseOrder(id, updates) is called by the edit form with the status.
UpdatePurchaseOrder(p, id, status) ==
    /\ Begin(p)
    /\ Resume(p, [Idle EXCEPT !.op = "updatePurchaseOrder", !.pc = "upo_update",
                              !.id = id, !.updates = [status |-> status]])
    /\ UNCHANGED <<purchaseOrders, purchaseOrderSeq, workOrderVars>>

\* update(updates).eq("id", id).select().single() finds the row.
UpdatePurchaseOrderWrite(p) ==
    LET c == call[p]
    IN  /\ c.pc = "upo_update"
        /\ c.id \in PurchaseOrderIds
        /\ purchaseOrders' =
               WithRow(purchaseOrders, c.id,
                       PurchaseOrderAfterUpdate(RowOf(purchaseOrders, c.id), c.updates))
        /\ Resume(p, [c EXCEPT !.pc = "upo_items"])
        /\ UNCHANGED <<calls, purchaseOrderSeq, workOrderVars>>

\* The update returns an error (the store failed, or no row has the id):
\* return null.
UpdatePurchaseOrderError(p) ==
    LET c == call[p]
    IN  /\ c.pc = "upo_update"
        /\ Resume(p, Returned(c, "null"))
        /\ UNCHANGED <<calls, purchaseOrders, purchaseOrderSeq, workOrderVars>>

\* The select of the items: on an error return null, otherwise await
\* logActivity and return the order with its items.
UpdatePurchaseOrderItems(p, ok) ==
    LET c == call[p]
    IN  /\ c.pc = "upo_items"
        /\ \E logged \in BOOLEAN :
               Resume(p, IF ok
                         THEN AfterLogActivity(logged, Returned(c, "ok"),
                                               Returned(c, "null"))
                         ELSE Returned(c, "null"))
        /\ UNCHANGED <<calls, purchaseOrders, purchaseOrderSeq, workOrderVars>>

\* deletePurchaseOrder(id): the row, if there is one, is deleted.
DeletePurchaseOrder(p, id) ==
    /\ Begin(p)
    /\ purchaseOrders' = WithoutId(purchaseOrders, id)
    /\ Resume(p, Returned([Idle EXCEPT !.op = "deletePurchaseOrder", !.id = id],
                          "true"))
    /\ UNCHANGED <<purchaseOrderSeq, workOrderVars>>

\* The delete returns an error: return false.
DeletePurchaseOrderError(p, id) ==
    /\ Begin(p)
    /\ Resume(p, Returned([Idle EXCEPT !.op = "deletePurchaseOrder", !.id = id],
                          "false"))
    /\ UNCHANGED <<purchaseOrders, purchaseOrderSeq, workOrderVars>>

\* One step of a createPurchaseOrder call.
CreatePurchaseOrderStep(p) ==
    \/ \E supplier \in Suppliers : CreatePurchaseOrder(p, supplier)
    \/ \E ok \in BOOLEAN : CreatePurchaseOrderSelect(p, ok)
    \/ CreatePurchaseOrderInsert(p)
    \/ CreatePurchaseOrderInsertError(p)
    \/ CreatePurchaseOrderItems(p)
    \/ \E ok \in BOOLEAN : CreatePurchaseOrderRollback(p, ok)

\* createPurchaseOrder, updatePurchaseOrder and deletePurchaseOrder, one call
\* after the other.
NextPurchase ==
    \/ CreatePurchaseOrderStep("t1")
    \/ \E id \in PurchaseOrderIds, status \in UpdateStatuses :
           UpdatePurchaseOrder("t1", id, status)
    \/ UpdatePurchaseOrderWrite("t1")
    \/ UpdatePurchaseOrderError("t1")
    \/ \E ok \in BOOLEAN : UpdatePurchaseOrderItems("t1", ok)
    \/ \E id \in PurchaseOrderIds : DeletePurchaseOrder("t1", id)
    \/ \E id \in PurchaseOrderIds : DeletePurchaseOrderError("t1", id)

SpecPurchase == Init /\ [][NextPurchase]_vars

\* ------------------------------------------------------------ generatePurchaseOrdersForLowStock

\* The suppliers of the low-stock and out-of-stock items of the list the
\* function is given, in the order of Object.entries(itemsBySupplier).
LowStockSuppliers == {<<>>, <<"s1">>, <<"s1", "s2">>}

\* .eq("supplier", supplier).eq("status", "pending").limit(1) returns a row.
PendingExists(rows, supplier) ==
    \E k \in 1..Len(rows) : rows[k].supplier = supplier /\ rows[k].status = "pending"

\* generatePurchaseOrdersForLowStock(rawMaterials): no low-stock item, return
\* []; otherwise the first supplier's pending order is looked for.
GeneratePurchaseOrdersForLowStock(p, suppliers) ==
    LET c == [Idle EXCEPT !.op = "generatePurchaseOrdersForLowStock",
                          !.orderData = [suppliers |-> suppliers]]
    IN  /\ Begin(p)
        /\ Resume(p, IF Len(suppliers) = 0
                     THEN Returned(c, "ok")
                     ELSE [c EXCEPT !.pc = "gen_check", !.i = 1])
        /\ UNCHANGED <<purchaseOrders, purchaseOrderSeq, workOrderVars>>

\* The select of a pending order of the supplier: existingPO with a row,
\* continue; with no row, or null after an error, createPurchaseOrder is called.
GenerateCheckPending(p, ok) ==
    LET c == call[p]
    IN  /\ c.pc = "gen_check"
        /\ Resume(p, IF ok /\ PendingExists(purchaseOrders, Supplier(c))
                     THEN NextSupplier(c)
                     ELSE [c EXCEPT !.pc = "po_select"])
        /\ UNCHANGED <<calls, purchaseOrders, purchaseOrderSeq, workOrderVars>>

\* One step of a generatePurchaseOrdersForLowStock call.
GenerateStep(p) ==
    \/ \E suppliers \in LowStockSuppliers : GeneratePurchaseOrdersForLowStock(p, suppliers)
    \/ \E ok \in BOOLEAN : GenerateCheckPending(p, ok)
    \/ \E ok \in BOOLEAN : CreatePurchaseOrderSelect(p, ok)
    \/ CreatePurchaseOrderInsert(p)
    \/ CreatePurchaseOrderInsertError(p)
    \/ CreatePurchaseOrderItems(p)
    \/ \E ok \in BOOLEAN : CreatePurchaseOrderRollback(p, ok)

\* generatePurchaseOrdersForLowStock calls of two sessions that interleave at
\* their awaits.
NextGenerate == \E p \in Procs : GenerateStep(p)

SpecGenerate == Init /\ [][NextGenerate]_vars

\* ------------------------------------------------------------ operations that log an activity

\* updateRawMaterial, updateInventoryItem and createPurchaseOrder calls of one
\* session, one after the other.
NextActivity ==
    \/ /\ \/ \E updates \in RawMaterialUpdates : UpdateRawMaterial("t1", 1, updates)
          \/ \E ok \in BOOLEAN : UpdateRawMaterialSelect("t1", ok)
          \/ UpdateRawMaterialWrite("t1")
          \/ UpdateRawMaterialError("t1")
          \/ \E stock \in UpdateQuantities :
                 UpdateInventoryItem("t1", 1, [stock |-> stock])
          \/ UpdateInventoryItemWrite("t1")
          \/ UpdateInventoryItemError("t1")
       /\ UNCHANGED <<pre, purchaseOrders, purchaseOrderSeq, calc>>
    \/ CreatePurchaseOrderStep("t1")

SpecActivity == Init /\ [][NextActivity]_vars

\* ------------------------------------------------------------ claims

AllReturned == \A p \in Procs : ~InFlight(p)

\* The work orders created so far.
Created == 1..(nextOrderId - 1)

InActive(id) == \E k \in 1..Len(productOrders) : productOrders[k].id = id
InHistory(id) == \E k \in 1..Len(productOrderHistory) : productOrderHistory[k].id = id

\* The status of order id as the lists of l hold it, "absent" when neither does.
StatusIn(active, history, id) ==
    IF \E k \in 1..Len(active) : active[k].id = id
    THEN active[CHOOSE k \in 1..Len(active) : active[k].id = id].status
    ELSE IF \E k \in 1..Len(history) : history[k].id = id
         THEN history[CHOOSE k \in 1..Len(history) : history[k].id = id].status
         ELSE "absent"

\* What order needs of material m.
Required(order, m) ==
    IF \E k \in 1..Len(order.materials) : order.materials[k].materialId = m
    THEN order.materials[CHOOSE k \in 1..Len(order.materials) :
                             order.materials[k].materialId = m].quantity
    ELSE 0

\* The rule of the specification: out-of-stock at 0, low-stock up to the
\* reorder level, in-stock above it.
Classify(quantity, reorderLevel) ==
    IF quantity = 0 THEN "out-of-stock"
    ELSE IF quantity <= reorderLevel THEN "low-stock"
    ELSE "in-stock"

\* ---- C1

NonNegative ==
    /\ \A m \in DOMAIN rawMaterials : rawMaterials[m].quantity >= 0
    /\ \A i \in DOMAIN inventoryItems : inventoryItems[i].stock >= 0

\* Call p is a createProductOrder about to look at a material the store holds
\* less of than the call requires.
ShortOfMaterial(p) ==
    /\ call[p].op = "createProductOrder"
    /\ call[p].pc = "getRawMaterials"
    /\ LET material == call[p].orderData.materials[call[p].i]
       IN  /\ material.materialId \in DOMAIN rawMaterials
           /\ rawMaterials[material.materialId].quantity - material.quantity < 0

\* The step refuses the material: the call throws (the insufficient-stock error,
\* or the not-found error when the read itself failed) and no row is written.
Refused(p) ==
    /\ returned'.proc = p
    /\ returned'.result \in {"InsufficientStock", "NotFound"}
    /\ rawMaterials' = rawMaterials

\* C1: in every run of interleaved createProductOrder and updateProductOrderStatus
\* calls no raw material's quantity and no product's stock is below 0, and a
\* createProductOrder that finds less of a material than it requires throws
\* without writing the material's quantity.
C1_NeverNegative ==
    /\ []NonNegative
    /\ [][\A p \in Procs : (ShortOfMaterial(p) /\ call'[p] # call[p]) => Refused(p)]_vars

\* A createProductOrder has just been refused for insufficient stock.
C1_Witness ==
    /\ returned.op = "createProductOrder"
    /\ returned.result = "InsufficientStock"

\* ---- C2

\* C2: when createProductOrder fails for insufficient stock, every raw
\* material's quantity is what it was before the call.
C2_RolledBack ==
    (returned.op = "createProductOrder" /\ returned.result = "InsufficientStock")
    => \A m \in DOMAIN pre.rawMaterials :
           rawMaterials[m].quantity = pre.rawMaterials[m].quantity

\* ---- C3

\* C3: every stored item's status is the classification of its stored quantity
\* and reorder level (for a product: its stock and the 10-unit threshold).
C3_StatusClassified ==
    /\ \A m \in DOMAIN rawMaterials :
           rawMaterials[m].status =
               Classify(rawMaterials[m].quantity, rawMaterials[m].reorder_level)
    /\ \A i \in DOMAIN inventoryItems :
           inventoryItems[i].status =
               Classify(inventoryItems[i].stock, ProductLowStockCutoff)

\* ---- C4

\* C4: once two work orders of the same product have both been completed (two
\* creations and two completions were called and have returned), the product's
\* stock is its initial stock plus both orders' quantities.
C4_NoLostCredit ==
    (/\ AllReturned
     /\ calls = 4
     /\ Len(productOrderHistory) = 2
     /\ productOrderHistory[1].id # productOrderHistory[2].id
     /\ productOrderHistory[1].productId = productOrderHistory[2].productId)
    => LET product == productOrderHistory[1].productId
       IN  inventoryItems[product].stock =
               pre.inventoryItems[product].stock
               + productOrderHistory[1].quantity + productOrderHistory[2].quantity

\* ---- C5

\* C5: once two createProductOrder calls have both succeeded (and nothing else
\* was called), every material's quantity is its initial quantity minus what the
\* two orders require of it.
C5_NoLostDeduction ==
    (AllReturned /\ calls = 2 /\ Len(productOrders) = 2)
    => \A m \in DOMAIN rawMaterials :
           rawMaterials[m].quantity =
               pre.rawMaterials[m].quantity
               - Required(productOrders[1], m) - Required(productOrders[2], m)

\* ---- C6

\* updateProductOrderStatus(id, "completed") has just returned the order.
JustCompleted ==
    /\ returned.op = "updateProductOrderStatus"
    /\ returned.status = "completed"
    /\ returned.result = "ok"

\* C6: a completion that succeeds, for an order of quantity n for product P,
\* leaves P's stock n above what it was, the order out of the active list, and
\* the order at the end of the history list with status completed and
\* completedAt set.
C6_CompletionEffect ==
    JustCompleted =>
        /\ \E k \in 1..Len(pre.productOrders) : pre.productOrders[k].id = returned.id
        /\ LET order == pre.productOrders[CHOOSE k \in 1..Len(pre.productOrders) :
                                              pre.productOrders[k].id = returned.id]
           IN  /\ inventoryItems[order.productId].stock =
                      pre.inventoryItems[order.productId].stock + order.quantity
               /\ productOrders =
                      SelectSeq(pre.productOrders, LAMBDA o : o.id # returned.id)
               /\ productOrderHistory =
                      Append(pre.productOrderHistory,
                             [order EXCEPT !.status = "completed",
                                           !.completedAt = "set"])

\* The completion of the specification's example: stock 3, quantity 7, stock 10.
C6_Witness ==
    /\ JustCompleted
    /\ pre.inventoryItems[1].stock = 3
    /\ inventoryItems[1].stock = 10
    /\ Len(productOrderHistory) = 1

\* ---- C7

\* C7: completing an id that is absent, or whose order is already completed or
\* cancelled, does not succeed: no stock is credited and no order changes.
C7_TerminalNotCompleted ==
    (/\ returned.op = "updateProductOrderStatus"
     /\ returned.status = "completed"
     /\ StatusIn(pre.productOrders, pre.productOrderHistory, returned.id)
            \in {"absent", "completed", "cancelled"})
    => /\ returned.result # "ok"
       /\ inventoryItems = pre.inventoryItems
       /\ productOrders = pre.productOrders
       /\ productOrderHistory = pre.productOrderHistory

\* ---- C8

\* The completion has just thrown because the product could not be credited.
CreditFailed ==
    /\ returned.op = "updateProductOrderStatus"
    /\ returned.status = "completed"
    /\ returned.result \in {"ProductNotFound", "UpdateFailed"}

\* C8: when the credit fails the completion fails as a whole: the active list
\* (the order and its status with it), the history list and the raw materials
\* are what they were before the call.
C8_FailedCreditChangesNothing ==
    CreditFailed =>
        /\ productOrders = pre.productOrders
        /\ productOrderHistory = pre.productOrderHistory
        /\ rawMaterials = pre.rawMaterials
        /\ inventoryItems = pre.inventoryItems
        /\ StatusIn(productOrders, productOrderHistory, returned.id) # "completed"

\* A completion has just failed with the order still pending in the active list.
C8_Witness ==
    /\ CreditFailed
    /\ InActive(returned.id)
    /\ StatusIn(productOrders, productOrderHistory, returned.id) = "pending"

\* ---- C9

\* C9 as claimed: every order created is in exactly one of the two lists.
C9_ExactlyOne ==
    \A id \in Created : InActive(id) # InHistory(id)

\* The step is a deleteProductOrder(id) that returns true.
DeletesOrder(id) ==
    /\ returned'.op = "deleteProductOrder"
    /\ returned'.id = id
    /\ returned'.result = "true"

\* C9 as amended: no order is in both lists; an order is put in the active
\* list when it is created; and an order that is in exactly one list stays in
\* exactly one list until deleteProductOrder removes it, after which it is in
\* neither.
C9_ExactlyOneUntilDeleted ==
    /\ [](\A id \in Created : ~(InActive(id) /\ InHistory(id)))
    /\ [][/\ \A id \in {nextOrderId} :
                 nextOrderId' # nextOrderId => InActive(id)' /\ ~InHistory(id)'
          /\ \A id \in Created :
                 /\ (InActive(id) # InHistory(id))
                        => \/ (InActive(id) # InHistory(id))'
                           \/ DeletesOrder(id) /\ ~InActive(id)' /\ ~InHistory(id)'
                 /\ (~InActive(id) /\ ~InHistory(id))
                        => (~InActive(id) /\ ~InHistory(id))']_vars

\* One order is in the history list only, and another has just been deleted.
C9_Witness ==
    /\ returned.op = "deleteProductOrder"
    /\ returned.result = "true"
    /\ ~InActive(returned.id) /\ ~InHistory(returned.id)
    /\ \E id \in Created : InHistory(id) /\ ~InActive(id)

\* ---- C10

StatusOf(id) == StatusIn(productOrders, productOrderHistory, id)

\* C10: an order whose status is completed or cancelled keeps that status, and
\* no step credits a product while the order it completes is cancelled.
C10_Terminal ==
    [][/\ \A id \in Created :
              StatusOf(id) \in {"completed", "cancelled"}
                  => StatusOf(id)' \in {StatusOf(id), "absent"}
       /\ \A p \in Procs :
              (/\ call[p].op = "updateProductOrderStatus"
               /\ call[p].pc = "uii_update"
               /\ StatusOf(call[p].id) = "cancelled")
              => inventoryItems' = inventoryItems]_vars

\* ---- C11

\* createProductOrder has just returned the order it created.
JustCreated ==
    /\ returned.op = "createProductOrder"
    /\ returned.result = "ok"

\* createProductOrder has just thrown.
CreateFailed ==
    /\ returned.op = "createProductOrder"
    /\ returned.result \in {"NotFound", "InsufficientStock", "UpdateFailed"}

\* C11: createProductOrder adds the order to the active list only in the step
\* that returns it, when every material it requires has been deducted; the order
\* added is the last of the active list and has status pending; a call that
\* throws leaves the active and the history list as they were.
C11_OrderAfterDeductions ==
    /\ [](JustCreated =>
            /\ Len(productOrders) = Len(pre.productOrders) + 1
            /\ LET order == productOrders[Len(productOrders)]
               IN  /\ productOrders = Append(pre.productOrders, order)
                   /\ order.id = returned.id
                   /\ order.status = "pending"
                   /\ \A m \in DOMAIN pre.rawMaterials :
                          rawMaterials[m].quantity =
                              pre.rawMaterials[m].quantity - Required(order, m)
            /\ productOrderHistory = pre.productOrderHistory)
    /\ [](CreateFailed =>
            /\ productOrders = pre.productOrders
            /\ productOrderHistory = pre.productOrderHistory)
    /\ [][\A p \in Procs :
              (call[p].op = "createProductOrder" /\ productOrders' # productOrders)
                  => (returned'.op = "createProductOrder" /\ returned'.result = "ok")]_vars

\* An order of two materials has just been created, both deducted.
C11_Witness ==
    /\ JustCreated
    /\ Len(productOrders[Len(productOrders)].materials) = 2
    /\ \A m \in MaterialIds :
           rawMaterials[m].quantity < pre.rawMaterials[m].quantity

\* ---- C12

StatusSites ==
    {"addInventoryItem", "updateInventoryItem", "addRawMaterial", "updateRawMaterial",
     "getRawMaterials", "update_inventory_status", "update_raw_materials_status"}

\* C12: at every site the status assigned is the classification of the item's
\* quantity and reorder level.
C12_SameRuleEverywhere ==
    calc.fn \in StatusSites => calc.value = Classify(calc.quantity, calc.reorderLevel)

\* ---- C13

\* C13: the rule of updateRawMaterial gives, for every quantity >= 0 and reorder
\* level >= 0, one of the three statuses: out-of-stock exactly when the quantity
\* is 0, low-stock exactly when 0 < quantity <= reorder level, in-stock exactly
\* when quantity > reorder level.
C13_ClassifyTotal ==
    calc.fn = "updateRawMaterial" =>
        /\ calc.value \in {"in-stock", "low-stock", "out-of-stock"}
        /\ calc.value = "out-of-stock" <=> calc.quantity = 0
        /\ calc.value = "low-stock"
               <=> (0 < calc.quantity /\ calc.quantity <= calc.reorderLevel)
        /\ calc.value = "in-stock" <=> calc.quantity > calc.reorderLevel

\* Quantity 0 at reorder level 0 has been classified out-of-stock.
C13_Witness ==
    /\ calc.fn = "updateRawMaterial"
    /\ calc.quantity = 0
    /\ calc.reorderLevel = 0
    /\ calc.value = "out-of-stock"

\* ---- C14

\* The status updateRawMaterial / updateInventoryItem computes.
StatusComputed(site, quantity, reorderLevel) ==
    IF site = "updateInventoryItem"
    THEN InventoryStatus(quantity)
    ELSE RawMaterialStatus(quantity, reorderLevel)

\* C14: for a fixed reorder level, when updateRawMaterial or updateInventoryItem
\* classifies a quantity in-stock it classifies every greater quantity in-stock,
\* and when it classifies a quantity low-stock it classifies no greater quantity
\* out-of-stock.
C14_Monotone ==
    calc.fn \in {"updateRawMaterial", "updateInventoryItem"} =>
        \A greater \in (calc.quantity + 1)..(MaxQuantity + 1) :
            /\ calc.value = "in-stock"
                   => StatusComputed(calc.fn, greater, calc.reorderLevel) = "in-stock"
            /\ calc.value = "low-stock"
                   => StatusComputed(calc.fn, greater, calc.reorderLevel) # "out-of-stock"

\* A stock below the greatest has been classified in-stock, and a quantity
\* low-stock.
C14_Witness ==
    \/ /\ calc.fn = "updateInventoryItem"
       /\ calc.value = "in-stock"
       /\ calc.quantity < MaxQuantity
    \/ /\ calc.fn = "updateRawMaterial"
       /\ calc.value = "low-stock"
       /\ calc.quantity < calc.reorderLevel

\* ---- C15

\* C15: when a work order that requires all there is of a material has been
\* created, the material is stored with quantity 0 and status out-of-stock.
C15_ConsumedIsOutOfStock ==
    JustCreated =>
        \A m \in DOMAIN pre.rawMaterials :
            (/\ pre.rawMaterials[m].quantity > 0
             /\ Required(productOrders[Len(productOrders)], m)
                    = pre.rawMaterials[m].quantity)
            => /\ rawMaterials[m].quantity = 0
               /\ rawMaterials[m].status = "out-of-stock"

\* ---- C16

\* A quantity has been ordered for the stored row.
Ordered == calc.fn = "row" /\ "ordered" \in DOMAIN calc

\* C16: the quantity ordered for a low or out-of-stock raw material of quantity
\* q and reorder level r is max(2r - q, r).
C16_ReorderQuantity ==
    Ordered => calc.ordered = Max(2 * calc.reorder_level - calc.quantity,
                                  calc.reorder_level)

\* ---- C17

\* C17: the quantity ordered is at least 0 and at least the item's reorder
\* level, and for the same reorder level no smaller quantity in stock gets a
\* smaller order.
C17_ReorderFloorAndMonotone ==
    Ordered =>
        /\ calc.ordered >= 0
        /\ calc.ordered >= calc.reorder_level
        /\ \A less \in 0..calc.quantity :
               QuantityNeeded(GetRawMaterialsItem([calc EXCEPT !.quantity = less]))
                   >= calc.ordered

\* A low-stock material of quantity 9 and reorder level 10 has been ordered.
C17_Witness ==
    /\ Ordered
    /\ calc.status = "low-stock"
    /\ calc.quantity = 9
    /\ calc.reorder_level = 10
    /\ calc.ordered = 11

\* ---- C18

\* C18: the quantity ordered for a low or out-of-stock raw material is the
\* reorder_needed the low-stock report shows for it.
C18_SameReplenishment ==
    (Ordered /\ "reported" \in DOMAIN calc) => calc.ordered = calc.reported

\* ---- C19

\* The greatest of a set of numbers, 0 when there is none.
MaxOf(numbers) ==
    IF numbers = {} THEN 0 ELSE CHOOSE n \in numbers : \A o \in numbers : n >= o

\* C19: the SKU assigned by addInventoryItem / addRawMaterial has the number
\* that follows the greatest number among the existing SKUs of the prefix (1
\* when there is none), written with at least 4 digits.
C19_NextSkuFromMax ==
    calc.fn \in {"addInventoryItem", "addRawMaterial"} =>
        /\ ParseInt(calc.sku) = MaxOf(calc.numbers) + 1
        /\ Len(calc.sku) >= SkuWidth
        /\ calc.sku = FormatSku(MaxOf(calc.numbers) + 1)

\* ---- C20

\* The numbers of the purchase orders stored.
PoNumbers == {ParseInt(purchaseOrders[k].po_number) : k \in 1..Len(purchaseOrders)}

Collides(p) ==
    /\ call[p].op = "addInventoryItem"
    /\ call[p].pc = "aii_insert"
    /\ returned.op = "addInventoryItem"
    /\ returned.result = "ok"
    /\ returned.proc # p
    /\ returned.id \in DOMAIN inventoryItems
    /\ inventoryItems[returned.id].sku = call[p].updates.sku

\* C21: an addInventoryItem whose SKU a concurrent addInventoryItem has just
\* taken does not return null when the insert is refused: it goes on (to fetch
\* the last SKU again and retry).
C21_CollisionRetried ==
    [][\A p \in Procs :
           (Collides(p) /\ call'[p] # call[p])
               => ~(returned'.proc = p /\ returned'.result = "null")]_vars

\* ---- C22

\* C22: no step of a run of createPurchaseOrder, updatePurchaseOrder and
\* deletePurchaseOrder calls changes the po_number of a purchase order that is
\* stored before and after it: the number is the one the order was inserted
\* with.
C22_PoNumberKept ==
    [][\A id \in PurchaseOrderIds :
           id \in PurchaseOrderIds'
               => RowOf(purchaseOrders', id).po_number
                      = RowOf(purchaseOrders, id).po_number]_vars

\* updatePurchaseOrder has returned the first order, approved, and the order
\* still has the number PO-0001 it was created with.
C22_Witness ==
    /\ returned.op = "updatePurchaseOrder"
    /\ returned.result = "ok"
    /\ returned.id = 1
    /\ 1 \in PurchaseOrderIds
    /\ RowOf(purchaseOrders, 1).status = "approved"
    /\ RowOf(purchaseOrders, 1).po_number = FormatSku(1)

\* ---- C23

\* C23: a store write that changes a raw material's quantity leaves the row
\* with the status classified from the new quantity (against some reorder
\* level), and a write that changes a product's stock leaves it with the
\* status classified from the new stock (by the code's rule or the
\* trigger's): no reader finds the new quantity beside a status of the old.
C23_StatusWrittenWithQuantity ==
    [][/\ \A m \in DOMAIN rawMaterials :
              rawMaterials'[m].quantity # rawMaterials[m].quantity
                  => \E level \in 0..MaxLevel :
                         rawMaterials'[m].status =
                             RawMaterialStatus(rawMaterials'[m].quantity, level)
       /\ \A i \in DOMAIN inventoryItems :
              inventoryItems'[i].stock # inventoryItems[i].stock
                  => inventoryItems'[i].status
                         \in {InventoryStatus(inventoryItems'[i].stock),
                              TriggerInventoryStatus(inventoryItems'[i].stock)}]_vars

\* ---- C24

\* C24: when the insert of the activity record fails, updateRawMaterial,
\* updateInventoryItem and createPurchaseOrder still return their row, and the
\* store holds what they wrote: the material or product as updated, the
\* purchase order with its items.
C24_ActivityFailureIgnored ==
    [][returned'.activity = "failed" =>
           LET c == call[returned'.proc]
           IN  /\ returned'.result = "ok"
               /\ c.op = "updateRawMaterial"
                      => rawMaterials'[c.itemId] =
                             RawMaterialRowAfterUpdate(rawMaterials[c.itemId], c.updates)
               /\ c.op = "updateInventoryItem"
                      => inventoryItems'[c.itemId] =
                             InventoryRowAfterUpdate(inventoryItems[c.itemId], c.updates)
               /\ c.op = "createPurchaseOrder"
                      => /\ c.id \in PurchaseOrderIds'
                         /\ RowOf(purchaseOrders', c.id).items]_vars

\* updateRawMaterial(1, {quantity: 0}) has returned the row although the
\* activity was not recorded, and the material is stored with quantity 0.
C24_Witness ==
    /\ returned.op = "updateRawMaterial"
    /\ returned.activity = "failed"
    /\ returned.result = "ok"
    /\ rawMaterials[returned.id].quantity = 0

\* ---- C25

\* C25: however updateProductOrderStatus(id, "completed") calls on the same
\* order interleave, the order appears at most once in the history list (and
\* so its product is credited once).
C25_CompletedOnce ==
    \A k, l \in 1..Len(productOrderHistory) :
        productOrderHistory[k].id = productOrderHistory[l].id => k = l

\* ---- C26

\* C26: when a completion of an order that is active and not yet in history
\* returns, whatever calls on other orders ran during its awaits, the active
\* list has lost exactly that order: the order with the id is gone, every other
\* order stays.
C26_RemovesItsOrder ==
    [][\A p \in Procs :
           (/\ call[p].op = "updateProductOrderStatus"
            /\ call[p].pc = "move"
            /\ InActive(call[p].id)
            /\ ~InHistory(call[p].id)
            /\ returned'.proc = p)
               => productOrders' =
                      SelectSeq(productOrders, LAMBDA o : o.id # call[p].id)]_vars

\* ---- C27

\* C27: however createProductOrder, updateProductOrderStatus and
\* deleteProductOrder calls interleave, every order listed has an id below the
\* counter; the counter never goes back and moves only when a createProductOrder
\* returns its order, by one, the order pushed having the counter's old value
\* as its id; a createProductOrder that fails leaves the counter alone. So an
\* id, once given, is never given again, also after its order was deleted.
C27_FreshIds ==
    [][/\ \A k \in 1..Len(productOrders) : productOrders[k].id < nextOrderId
       /\ \A k \in 1..Len(productOrderHistory) :
              productOrderHistory[k].id < nextOrderId
       /\ nextOrderId' >= nextOrderId
       /\ nextOrderId' # nextOrderId
              => /\ nextOrderId' = nextOrderId + 1
                 /\ returned'.op = "createProductOrder"
                 /\ returned'.result = "ok"
                 /\ Len(productOrders') = Len(productOrders) + 1
                 /\ productOrders'[Len(productOrders')].id = nextOrderId
       /\ (returned'.op = "createProductOrder" /\ returned'.result # "ok")
              => nextOrderId' = nextOrderId
       /\ \A k \in 1..Len(productOrders') :
              productOrders'[k].id < nextOrderId'
                  /\ (InActive(productOrders'[k].id)
                         \/ productOrders'[k].id = nextOrderId)]_vars

\* Order 1 has been deleted and the order created after that has got id 2.
C27_Witness ==
    /\ returned.op = "createProductOrder"
    /\ returned.result = "ok"
    /\ returned.id = 2
    /\ InActive(2)
    /\ ~InActive(1)
    /\ ~InHistory(1)

\* ---- C28

\* C28: however generatePurchaseOrdersForLowStock calls interleave, no supplier
\* has more than one pending purchase order.
C28_OnePendingPerSupplier ==
    \A k, l \in 1..Len(purchaseOrders) :
        (/\ purchaseOrders[k].supplier = purchaseOrders[l].supplier
         /\ purchaseOrders[k].status = "pending"
         /\ purchaseOrders[l].status = "pending")
            => k = l

\* ---- C29

\* C29: after a createPurchaseOrder that returned null the order it inserted,
\* if any, is not stored; and every purchase order stored has its line items,
\* but for the one a call still in flight has inserted and is about to give its
\* items.
C29_AllOrNothing ==
    /\ (returned.op = "createPurchaseOrder" /\ returned.result = "null")
           => returned.id \notin PurchaseOrderIds
    /\ \A k \in 1..Len(purchaseOrders) :
           \/ purchaseOrders[k].items
           \/ \E p \in Procs : /\ call[p].pc = "po_items"
                               /\ call[p].id = purchaseOrders[k].id

\* ---- C30

\* C30: a deleteProductOrder(id) that returns true has removed the one active
\* order with that id and nothing else; one that returns false was given an id
\* that is not in the active list (it may be in history) and has changed
\* nothing. Either way raw materials, product stock, the history list and the
\* id counter are as before.
C30_DeleteFrame ==
    [][returned'.op = "deleteProductOrder" =>
           /\ rawMaterials' = rawMaterials
           /\ inventoryItems' = inventoryItems
           /\ productOrderHistory' = productOrderHistory
           /\ nextOrderId' = nextOrderId
           /\ IF InActive(returned'.id)
              THEN /\ returned'.result = "true"
                   /\ Len(productOrders') = Len(productOrders) - 1
                   /\ productOrders' =
                          SelectSeq(productOrders, LAMBDA o : o.id # returned'.id)
              ELSE /\ returned'.result = "false"
                   /\ productOrders' = productOrders]_vars

\* deleteProductOrder has removed one of two active orders; the other is still
\* active.
C30_Witness ==
    /\ returned.op = "deleteProductOrder"
    /\ returned.result = "true"
    /\ ~InActive(returned.id)
    /\ Len(productOrders) = 1
    /\ nextOrderId = 3

====
